---- MODULE Spec2Model ----
(***************************************************************************)
(* Model of the game progression engine of generated-adventures:          *)
(*   core/models.py    PromptType validation, Character / Scene / Game    *)
(*   core/generator.py retry_on_overload, _apply_character_updates,       *)
(*                     generate_opening_scene, generate_next_scene        *)
(*   core/game.py      the registry `games` and its operations            *)
(*   core/persistence.py  save_game / load_game                           *)
(*                                                                         *)
(* The specifications share the variables:                                *)
(*   SpecPrompt  construction of a PromptType from keyword arguments      *)
(*   SpecRetry   retry_on_overload against a scripted backend             *)
(*   SpecMerge   _apply_character_updates on a roster and a proposal      *)
(*   SpecRequest the prompts of the two scene generators                  *)
(*   Spec        the game operations, one operation at a time, with the   *)
(*               suspension points of the async operations visible        *)
(*   SpecAssets  Spec with asset tasks that fail independently            *)
(*   SpecOverlap two callers whose calls on a game in play interleave     *)
(***************************************************************************)
EXTENDS Integers, Sequences, FiniteSets, TLC

VARIABLES
    games,      \* core/game.py `games`: game id -> reference of a Game object
    heap,       \* the Game objects, by reference
    disk,       \* data/games/<id>.json: game id -> dumped Game
    calls,      \* the async operations in flight, one slot per caller
    env,        \* what the specification lets the environment do: whether
                \* operations overlap, and how the two asset tasks can end
    script,     \* outcomes the scripted backend gives to successive attempts
    rt,         \* locals and result of the running retry_on_overload
    pin,        \* keyword arguments handed to PromptType(...)
    pout,       \* result of the construction
    roster,     \* `characters` handed to _apply_character_updates
    proposal,   \* `updated_generated_chars` handed to it
    merged,     \* the list it returned and what it logged
    story,      \* the game state and the action a scene request is built from
    request     \* the request text built from it, by its parts

vars == <<games, heap, disk, calls, env, script, rt, pin, pout,
          roster, proposal, merged, story, request>>

gameVars   == <<games, heap, disk, calls, env>>
retryVars  == <<script, rt>>
promptVars == <<pin, pout>>
mergeVars  == <<roster, proposal, merged>>
requestVars == <<story, request>>

\* Python's None for optional strings; optional records are <<>> or <<r>>.
None == "None"
Nothing == <<>>
Some(x) == <<x>>

Last(s) == s[Len(s)]

(***************************************************************************)
(* core/models.py : PromptType                                             *)
(***************************************************************************)
PromptTypeEnum == {"dialogue", "action", "dice_check"}
DiceType == {"d6", "d10"}

\* Values of target_character (Optional[str]); the empty string is a str.
TargetCharacterInputs == {None, "", "Kaelen"}

\* Values of target_characters (Optional[List[str]]): None is Nothing,
\* a list l is Some(l).
TargetCharactersInputs ==
    {Nothing, Some(<<>>), Some(<<"Kaelen">>), Some(<<"Kaelen", "Sera">>)}

PromptInputs ==
    [type : PromptTypeEnum,
     dice_type : DiceType \cup {None},
     target_character : TargetCharacterInputs,
     target_characters : TargetCharactersInputs,
     prompt_text : {"Roll for persuasion"}]

\* The validator looks at the targeting of dice_check prompts only.
checks_every_type(self) == TRUE
is_dice_check(self) == self.type = "dice_check"

has_single_target(self) == self.target_character # None

\* target_characters is not None and len(target_characters) > 0
has_multi_target_not_none(self) == self.target_characters # Nothing
has_multi_target(self) ==
    /\ self.target_characters # Nothing
    /\ Len(self.target_characters[1]) > 0

\* The model validator: the error it raises, or "ok" when it returns self.
validate_dice_check_targeting(self) ==
    IF is_dice_check(self)
    THEN IF self.dice_type = None
         THEN "must specify 'dice_type'"
         ELSE IF ~has_single_target(self) /\ ~has_multi_target(self)
              THEN "must specify either 'target_character'"
              ELSE IF has_single_target(self) /\ has_multi_target(self)
                   THEN "cannot specify both"
                   ELSE "ok"
    ELSE "ok"

\* PromptType(**kwargs): the fields are kept as given and the validator runs
\* after them; a ValueError of the validator surfaces as a ValidationError.
ConstructPromptType(kwargs) ==
    LET verdict == validate_dice_check_targeting(kwargs)
    IN  IF verdict = "ok"
        THEN [ok |-> TRUE, value |-> Some(kwargs), error |-> None]
        ELSE [ok |-> FALSE, value |-> Nothing, error |-> verdict]

NotConstructed == [ok |-> FALSE, value |-> Nothing, error |-> "pending"]

PromptInit ==
    /\ pin \in PromptInputs
    /\ pout = NotConstructed

PromptIdle ==
    /\ pin = [type |-> "action", dice_type |-> None, target_character |-> None,
              target_characters |-> Nothing, prompt_text |-> "Roll for persuasion"]
    /\ pout = NotConstructed

Construct ==
    /\ pout = NotConstructed
    /\ pout' = ConstructPromptType(pin)
    /\ UNCHANGED <<pin, gameVars, retryVars, mergeVars, requestVars>>

(***************************************************************************)
(* core/generator.py : retry_on_overload                                   *)
(***************************************************************************)
MAX_RETRIES == 5
RETRY_DELAY == 3
RETRY_BACKOFF == 2

\* An exception raised by the wrapped call.  Absent marks an attribute the
\* object does not have (hasattr is false).
Absent == -1
ServerError503 == [cls |-> "ServerError", status_code |-> Absent, code |-> 503]
ClientError429 == [cls |-> "ClientError", status_code |-> Absent, code |-> 429]
ServerError500 == [cls |-> "ServerError", status_code |-> 500, code |-> Absent]
ClientError400 == [cls |-> "ClientError", status_code |-> Absent, code |-> 400]
ClientErrorNoStatus == [cls |-> "ClientError", status_code |-> Absent, code |-> Absent]
OtherException == [cls |-> "ValueError", status_code |-> Absent, code |-> Absent]
NoException == [cls |-> "none", status_code |-> Absent, code |-> Absent]

Errors == {ServerError503, ClientError429, ServerError500, ClientError400,
           ClientErrorNoStatus, OtherException}

\* What one `await func(*args, **kwargs)` does: return a value or raise.
Returns(v) == [ok |-> TRUE, value |-> Some(v), exc |-> NoException]
Raises(e) == [ok |-> FALSE, value |-> Nothing, exc |-> e]

\* if status_code in (503, 429, 500)
RetryableStatusAndBadRequest == {503, 429, 500, 400}
RetryableStatusOverloadOnly == {503, 429}
RetryableStatus == {503, 429, 500}

\* if attempt < MAX_RETRIES - 1
MayRetryOneFewer(attempt) == attempt < MAX_RETRIES - 2
MayRetry(attempt) == attempt < MAX_RETRIES - 1

\* The locals of retry_on_overload before the first loop iteration.
RetryStart ==
    [attempt |-> 0, delay |-> RETRY_DELAY, last_exception |-> NoException,
     state |-> "running", result |-> Nothing, raised |-> NoException,
     attempts |-> 0, sleeps |-> <<>>]

\* After a sleep the loop continues; when range(MAX_RETRIES) is used up the
\* code after the loop raises last_exception.
RetryContinueSameDelay(r) ==
    LET n == [r EXCEPT !.sleeps = Append(r.sleeps, r.delay),
                       !.attempt = r.attempt + 1]
    IN  IF n.attempt < MAX_RETRIES
        THEN n
        ELSE [n EXCEPT !.state = "raised", !.raised = n.last_exception]
RetryContinue(r) ==
    LET n == [r EXCEPT !.sleeps = Append(r.sleeps, r.delay),
                       !.delay = r.delay * RETRY_BACKOFF,
                       !.attempt = r.attempt + 1]
    IN  IF n.attempt < MAX_RETRIES
        THEN n
        ELSE [n EXCEPT !.state = "raised", !.raised = n.last_exception]

\* One iteration of the loop body, given what the awaited call did.
RetryAttempt(r, outcome) ==
    LET r1 == [r EXCEPT !.attempts = r.attempts + 1]
        e == outcome.exc
    IN  IF outcome.ok
        THEN [r1 EXCEPT !.state = "returned", !.result = outcome.value]
        ELSE IF e.cls \in {"ServerError", "ClientError"}
        THEN LET r2 == [r1 EXCEPT !.last_exception = e]
                 fail == [r2 EXCEPT !.state = "raised", !.raised = e]
             IN  IF e.status_code = Absent /\ e.code = Absent
                 THEN fail
                 ELSE LET status_code ==
                              IF e.status_code # Absent THEN e.status_code ELSE e.code
                      IN  IF status_code \in RetryableStatus
                          THEN IF MayRetry(r2.attempt)
                               THEN RetryContinue(r2)
                               ELSE fail
                          ELSE fail
        ELSE [r1 EXCEPT !.state = "raised", !.raised = e]

\* The whole call against a backend that answers the attempts from `s`.
RECURSIVE retry_on_overload(_, _)
retry_on_overload(r, s) ==
    IF r.state # "running" \/ s = <<>>
    THEN r
    ELSE retry_on_overload(RetryAttempt(r, Head(s)), Tail(s))

\* Length of the scripts of the fake backend; once a script is used up the
\* backend succeeds.
MaxScript == 5

Outcomes == {Returns("result")} \cup {Raises(e) : e \in Errors}

RetryInit ==
    /\ script \in [1..MaxScript -> Outcomes]
    /\ rt = RetryStart

RetryIdle ==
    /\ script = <<>>
    /\ rt = RetryStart

\* The attempt the executor is about to make is answered by the script.
ScriptedOutcome ==
    IF rt.attempts < Len(script) THEN script[rt.attempts + 1] ELSE Returns("late result")

Attempt ==
    /\ rt.state = "running"
    /\ rt' = RetryAttempt(rt, ScriptedOutcome)
    /\ UNCHANGED <<script, gameVars, promptVars, mergeVars, requestVars>>

(***************************************************************************)
(* core/models.py : Character, Scene, Game and the generated schemas       *)
(***************************************************************************)
\* The Characters generate_characters offers for selection: every Character
\* it builds has maximum_health = current_health = 100.
Kaelen ==
    [name |-> "Kaelen", strength |-> 15, intelligence |-> 10,
     agility |-> 12, maximum_health |-> 100, current_health |-> 100,
     backstory |-> "b1", appearance |-> "a1", personality |-> "p1",
     skills |-> <<"Swordsmanship">>, inventory |-> <<"Sword">>,
     image_path |-> "/static/characters/g1/character_1.png"]

Sera ==
    [name |-> "Sera", strength |-> 8, intelligence |-> 17,
     agility |-> 11, maximum_health |-> 100, current_health |-> 100,
     backstory |-> "b2", appearance |-> "a2", personality |-> "p2",
     skills |-> <<"Arcane Knowledge">>, inventory |-> <<"Staff">>,
     image_path |-> None]

CharacterPool == {Kaelen, Sera}

\* A Character object of a roster is its values plus `ref`, the identity of
\* the Python object: two list entries with the same ref are one object and
\* change together.
Object(c, ref) == [ref |-> ref] @@ c
FreshRef(characters) ==
    CHOOSE r \in 1..(Len(characters) + 1) :
        /\ \A i \in 1..Len(characters) : characters[i].ref # r
        /\ \A q \in 1..(r - 1) : \E i \in 1..Len(characters) : characters[i].ref = q

\* What a caller can pass to add_character_to_game: a Character that is not
\* in the roster yet, or an object the roster already holds (the selection
\* page keeps offering the objects it generated).
CharacterInputs(pool, characters) ==
    {Object(c, FreshRef(characters)) : c \in pool}
        \cup {characters[i] : i \in 1..Len(characters)}

\* The GeneratedCharacter that repeats a character's sheet.
Sheet(c) ==
    [name |-> c.name, strength |-> c.strength, intelligence |-> c.intelligence,
     agility |-> c.agility, current_health |-> c.current_health,
     backstory |-> c.backstory, appearance |-> c.appearance,
     personality |-> c.personality, skills |-> c.skills,
     inventory |-> c.inventory]

Proposed(c, health) == [Sheet(c) EXCEPT !.current_health = health]

Zed == [Sheet(Kaelen) EXCEPT !.name = "Zed", !.current_health = 10]

PromptOf(kwargs) == ConstructPromptType(kwargs).value[1]

PartyDialogue ==
    [type |-> "dialogue", dice_type |-> None, target_character |-> None,
     target_characters |-> Nothing, prompt_text |-> "Roll for persuasion"]

KaelenDiceCheck ==
    [type |-> "dice_check", dice_type |-> "d6", target_character |-> "Kaelen",
     target_characters |-> Nothing, prompt_text |-> "Roll for persuasion"]

PartyAction == [PartyDialogue EXCEPT !.type = "action"]

\* GeneratedScene objects the backend may answer with.
Ambush ==
    [scene_text |-> "ambush", prompt |-> KaelenDiceCheck,
     updated_characters |-> <<Proposed(Kaelen, -5), Zed>>,
     assets_present |-> <<>>, game_status |-> "ongoing"]

Defeat ==
    [scene_text |-> "defeat", prompt |-> PartyAction,
     updated_characters |->
         <<Proposed(Sera, 0), [Proposed(Kaelen, 150) EXCEPT !.strength = 25]>>,
     assets_present |-> <<>>, game_status |-> "failed"]

Victory ==
    [scene_text |-> "victory", prompt |-> PartyDialogue,
     updated_characters |-> <<>>,
     assets_present |-> <<"Innkeeper">>, game_status |-> "completed"]

\* Structured output is validated against GeneratedScene before it is
\* returned, so the prompt of a response passed PromptType's validator.
Responses ==
    {r \in {Ambush, Defeat, Victory} : ConstructPromptType(r.prompt).ok}

_make_scene(scene_id, scene_text, prompt, image_path, game_status) ==
    [id |-> scene_id, text |-> scene_text, prompt |-> prompt,
     image_path |-> image_path, voiceover_path |-> None,
     visible_asset_ids |-> <<>>, game_status |-> game_status]

Game(id, players) ==
    [id |-> id, players |-> players, scenario_name |-> None,
     characters |-> <<>>, scenario_details |-> None, scenes |-> <<>>,
     player_actions |-> <<>>, assets |-> {}]

(***************************************************************************)
(* core/generator.py : _apply_character_updates                            *)
(***************************************************************************)
Min(a, b) == IF a < b THEN a ELSE b
Max(a, b) == IF a > b THEN a ELSE b

\* max(0, min(updated_char.current_health, char.maximum_health))
ClampHealthAtZeroOnly(health, maximum_health) == Max(0, health)
ClampHealth(health, maximum_health) == Max(0, Min(health, maximum_health))

\* The body of the loop for one update that names a known character.
UpdatedCharacterRaisingMaximum(char, updated_char) ==
    [char EXCEPT !.current_health = Max(0, updated_char.current_health),
                 !.maximum_health = Max(@, updated_char.current_health)]
UpdatedCharacter(char, updated_char) ==
    [char EXCEPT
        !.strength = IF char.strength # updated_char.strength
                     THEN updated_char.strength ELSE char.strength,
        !.intelligence = IF char.intelligence # updated_char.intelligence
                         THEN updated_char.intelligence ELSE char.intelligence,
        !.agility = IF char.agility # updated_char.agility
                    THEN updated_char.agility ELSE char.agility,
        !.current_health =
            IF char.current_health # updated_char.current_health
            THEN ClampHealth(updated_char.current_health, char.maximum_health)
            ELSE char.current_health,
        !.inventory = updated_char.inventory,
        !.skills = updated_char.skills,
        !.backstory = updated_char.backstory,
        !.appearance = updated_char.appearance,
        !.personality = updated_char.personality]

\* if updated_char.name not in char_dict: ... continue
InsertUnknown(characters, updated_char) ==
    Append(characters,
           Object([Kaelen EXCEPT !.name = updated_char.name,
                                 !.current_health = updated_char.current_health],
                  FreshRef(characters)))
SkipUnknown(characters, updated_char) == characters

\* char_dict = {char.name: char for char in characters}: the last entry of a
\* name wins.  The update mutates that object, so every entry that is the
\* same object shows it.
ApplyUpdate(characters, updated_char) ==
    LET named == {i \in 1..Len(characters) : characters[i].name = updated_char.name}
    IN  IF named = {}
        THEN SkipUnknown(characters, updated_char)
        ELSE LET k == CHOOSE i \in named : \A j \in named : j <= i
                 char == characters[k]
                 new == UpdatedCharacter(char, updated_char)
             IN  [i \in 1..Len(characters) |->
                    IF characters[i].ref = char.ref THEN new ELSE characters[i]]

\* The list of the characters the updates name, in place of the roster.
OnlyUpdatedCharacters(characters, updated_generated_chars) ==
    LET Named(char) == \E k \in 1..Len(updated_generated_chars) :
                          updated_generated_chars[k].name = char.name
    IN  SelectSeq(characters, Named)
RECURSIVE _apply_character_updates(_, _)
_apply_character_updates(characters, updated_generated_chars) ==
    IF updated_generated_chars = <<>>
    THEN characters
    ELSE _apply_character_updates(
             ApplyUpdate(characters, Head(updated_generated_chars)),
             Tail(updated_generated_chars))

\* set(char.inventory), set(char.skills)
SetOf(s) == {s[i] : i \in 1..Len(s)}

\* if char.current_health != updated_char.current_health
HealthAlwaysLogged(char, updated_char) == TRUE
HealthChanged(char, updated_char) ==
    char.current_health # updated_char.current_health

\* `changes` of one loop iteration: which kinds of change were appended, in
\* the order of the code (the message text is left out).
Changes(char, updated_char) ==
    (IF char.strength # updated_char.strength THEN <<"STR">> ELSE <<>>)
    \o (IF char.intelligence # updated_char.intelligence THEN <<"INT">> ELSE <<>>)
    \o (IF char.agility # updated_char.agility THEN <<"AGI">> ELSE <<>>)
    \o (IF HealthChanged(char, updated_char) THEN <<"Health">> ELSE <<>>)
    \o (IF SetOf(updated_char.inventory) \ SetOf(char.inventory) # {}
        THEN <<"Gained">> ELSE <<>>)
    \o (IF SetOf(char.inventory) \ SetOf(updated_char.inventory) # {}
        THEN <<"Lost">> ELSE <<>>)
    \o (IF SetOf(updated_char.skills) \ SetOf(char.skills) # {}
        THEN <<"Learned">> ELSE <<>>)
    \o (IF SetOf(char.skills) \ SetOf(updated_char.skills) # {}
        THEN <<"Forgot">> ELSE <<>>)

\* What one loop iteration logs: a warning for an unknown name, an info line
\* when `changes` is not empty.
Logged(characters, updated_char) ==
    LET named == {i \in 1..Len(characters) : characters[i].name = updated_char.name}
    IN  IF named = {}
        THEN <<[level |-> "warning", name |-> updated_char.name, changes |-> <<>>]>>
        ELSE LET k == CHOOSE i \in named : \A j \in named : j <= i
                 changes == Changes(characters[k], updated_char)
             IN  IF changes # <<>>
                 THEN <<[level |-> "info", name |-> updated_char.name,
                         changes |-> changes]>>
                 ELSE <<>>

\* Everything one call of _apply_character_updates logs.
RECURSIVE MergeLog(_, _)
MergeLog(characters, updated_generated_chars) ==
    IF updated_generated_chars = <<>>
    THEN <<>>
    ELSE Logged(characters, Head(updated_generated_chars))
         \o MergeLog(ApplyUpdate(characters, Head(updated_generated_chars)),
                     Tail(updated_generated_chars))

\* Rosters a game can hold: characters of the pool at some health, each entry
\* its own object, or one object listed twice.
HealthLevels == {0, 40, 100}
CharacterStates ==
    {[c EXCEPT !.current_health = h] : c \in CharacterPool, h \in HealthLevels}
MaxUpdates == 2
RosterInputs ==
    {<<>>}
    \cup {<<Object(a, 1)>> : a \in CharacterStates}
    \cup {<<Object(a, 1), Object(b, 2)>> : a \in CharacterStates, b \in CharacterStates}
    \cup {<<Object(a, 1), Object(a, 1)>> : a \in CharacterStates}

\* GeneratedCharacter entries the backend may send: any health for a
\* character of the pool, changed stats and lists, an unknown name.
ProposedHealth == {-5, 0, 40, 100, 150}
Veteran ==
    [Sheet(Kaelen) EXCEPT !.strength = 16, !.skills = <<>>,
                          !.inventory = <<"Sword", "Potion">>,
                          !.backstory = "b1 (revised)"]
UpdateInputs ==
    {Proposed(c, h) : c \in CharacterPool, h \in ProposedHealth} \cup {Zed, Veteran}
ProposalInputs ==
    UNION {[1..n -> UpdateInputs] : n \in 0..MaxUpdates}

NotMerged == [done |-> FALSE, characters |-> <<>>, log |-> <<>>]

MergeInit ==
    /\ roster \in RosterInputs
    /\ proposal \in ProposalInputs
    /\ merged = NotMerged

MergeIdle ==
    /\ roster = <<>>
    /\ proposal = <<>>
    /\ merged = NotMerged

Merge ==
    /\ ~merged.done
    /\ merged' = [done |-> TRUE,
                  characters |-> _apply_character_updates(roster, proposal),
                  log |-> MergeLog(roster, proposal)]
    /\ UNCHANGED <<roster, proposal, gameVars, retryVars, promptVars, requestVars>>

(***************************************************************************)
(* core/persistence.py : save_game / load_game                             *)
(***************************************************************************)
\* game.model_dump() written as JSON: values only, no object identity.
DumpCharacter(c) ==
    [name |-> c.name, strength |-> c.strength, intelligence |-> c.intelligence,
     agility |-> c.agility, maximum_health |-> c.maximum_health,
     current_health |-> c.current_health, backstory |-> c.backstory,
     appearance |-> c.appearance, personality |-> c.personality,
     skills |-> c.skills, inventory |-> c.inventory, image_path |-> c.image_path]

model_dump(game) ==
    [game EXCEPT !.characters =
        [i \in 1..Len(game.characters) |-> DumpCharacter(game.characters[i])]]

\* Field constraints of Character and Game, checked by Game.model_validate.
ValidCharacterData(c) ==
    /\ c.strength >= 0 /\ c.strength <= 20
    /\ c.intelligence >= 0 /\ c.intelligence <= 20
    /\ c.agility >= 0 /\ c.agility <= 20
    /\ c.maximum_health >= 1
    /\ c.current_health >= 0

ValidGameData(data) ==
    /\ data.players >= 1
    /\ \A i \in 1..Len(data.characters) : ValidCharacterData(data.characters[i])
    /\ \A i \in 1..Len(data.scenes) :
          /\ ConstructPromptType(data.scenes[i].prompt).ok
          /\ data.scenes[i].game_status \in {"ongoing", "completed", "failed"}

\* Game.model_validate(data): every loaded character is a new object.
model_validate_without_characters(data) == [data EXCEPT !.characters = <<>>]
model_validate(data) ==
    [data EXCEPT !.characters =
        [i \in 1..Len(data.characters) |->
            Object(data.characters[i], i)]]

save_game(d, game) == (game.id :> model_dump(game)) @@ d

(***************************************************************************)
(* core/game.py : the registry and its operations                          *)
(***************************************************************************)
GameIds == {"g1"}
\* The ids a caller may ask load_game for: a game's id, or an id no game has.
LoadIds == GameIds \cup {"g0"}
ScenarioNames == {"Siege of Emberhold"}
PlayerActions == {None, "", "I draw my sword"}

\* Bounds of the model.
MaxPlayers == 1
MaxChars == 2
MaxScenes == 2
MaxActions == 2
NumCallers == 2
NumRefs == 2

Callers == 1..NumCallers
Refs == 1..NumRefs

EmptyMap == [x \in {} |-> 0]

IdleCall ==
    [pc |-> "idle", op |-> "none", game_id |-> None, ref |-> 0,
     player_action |-> None, last_scene_id |-> 0, conversation_history |-> <<>>,
     generated |-> Nothing, pre |-> Nothing, pre_disk |-> Nothing,
     assets |-> Nothing, outcome |-> "none", ret |-> Nothing]

\* The Game the registry holds under an id.
Registered(g) == heap[games[g]]

\* In the sequential specification an operation starts only when no other
\* is in flight, and only caller 1 runs them.
MayStart(c) ==
    /\ calls[c].pc = "idle"
    /\ env.concurrent \/ (c = 1 /\ \A d \in Callers : calls[d].pc = "idle")

MaySync == env.concurrent \/ \A d \in Callers : calls[d].pc = "idle"

\* Objects reachable from the registry or from the locals of a call.
HeldBy(cs) == {cs[c].ref : c \in Callers} \ {0}
Collect(h, gs, cs) ==
    [r \in (DOMAIN h) \cap ({gs[g] : g \in DOMAIN gs} \cup HeldBy(cs)) |-> h[r]]
NewRef(gs, cs) ==
    CHOOSE r \in Refs \ ({gs[g] : g \in DOMAIN gs} \cup HeldBy(cs)) :
        \A q \in Refs \ ({gs[g] : g \in DOMAIN gs} \cup HeldBy(cs)) : r <= q
HasRef(gs, cs) == Refs \ ({gs[g] : g \in DOMAIN gs} \cup HeldBy(cs)) # {}

GameInit ==
    /\ games = EmptyMap
    /\ heap = EmptyMap
    /\ disk = EmptyMap
    /\ calls = [c \in Callers |-> IdleCall]

\* What asyncio.gather(..., return_exceptions=True) yields for one asset task.
AssetResults == {"file", "none", "exception"}

\* How the image task and the voiceover task of one scene can end.
AssetPairs == AssetResults \X AssetResults

\* What the callers and the backend may do, whatever the scheduling: any
\* action, any answer, any character of the pool, any id to load.
AnyInput ==
    [actions |-> PlayerActions, responses |-> Responses,
     pool |-> CharacterPool, load_ids |-> LoadIds]

\* One operation at a time; the asset tasks succeed, or both fail.
Sequential ==
    [concurrent |-> FALSE,
     assets |-> {<<"file", "file">>, <<"exception", "none">>}] @@ AnyInput

GameIdle == GameInit /\ env = Sequential

\* One operation at a time; each asset task yields a file, yields None or
\* raises, independently of the other.
AnyAssetResult == [concurrent |-> FALSE, assets |-> AssetPairs] @@ AnyInput

\* Operations of two callers interleave at their suspension points, as the
\* handlers of two browser events do on one event loop; the asset tasks
\* succeed.
Overlapping ==
    [concurrent |-> TRUE, assets |-> {<<"file", "file">>},
     actions |-> {"I draw my sword"}, responses |-> {Ambush, Victory},
     pool |-> CharacterPool, load_ids |-> GameIds]

create_new_game(players) ==
    /\ MaySync
    /\ HasRef(games, calls)
    /\ \E g \in GameIds \ (DOMAIN games \cup DOMAIN disk) :
          LET r == NewRef(games, calls)
              new_game == Game(g, players)
          IN  /\ games' = (g :> r) @@ games
              /\ heap' = (r :> new_game) @@ heap
              /\ disk' = save_game(disk, new_game)
    /\ UNCHANGED <<calls, env, retryVars, promptVars, mergeVars, requestVars>>

\* load_game has a result the caller looks at, so it leaves a finished call.
load_game(c, game_id) ==
    /\ MayStart(c)
    /\ LET done == [IdleCall EXCEPT !.pc = "done", !.op = "load",
                                    !.game_id = game_id,
                                    !.pre = IF game_id \in DOMAIN games
                                            THEN Some(Registered(game_id))
                                            ELSE Nothing,
                                    !.pre_disk = Some(disk)]
           gs == [g \in DOMAIN games \ {game_id} |-> games[g]]
       IN  IF game_id \notin DOMAIN disk
           THEN /\ calls' = [calls EXCEPT ![c] =
                                [done EXCEPT !.outcome = "returned None"]]
                /\ UNCHANGED <<games, heap>>
           ELSE IF ~ValidGameData(disk[game_id])
           THEN /\ calls' = [calls EXCEPT ![c] = [done EXCEPT !.outcome = "raised"]]
                /\ UNCHANGED <<games, heap>>
           ELSE /\ HasRef(gs, calls)
                /\ LET r == NewRef(gs, calls)
                       game == model_validate(disk[game_id])
                   IN  /\ games' = (game_id :> r) @@ games
                       /\ heap' = Collect((r :> game) @@ heap, games', calls)
                       /\ calls' = [calls EXCEPT ![c] =
                                       [done EXCEPT !.outcome = "returned",
                                                    !.ret = Some(game)]]
    /\ UNCHANGED <<disk, env, retryVars, promptVars, mergeVars, requestVars>>

\* del game.games[game_id]: the Game leaves the registry, its file stays.
clear_from_memory(game_id) ==
    /\ MaySync
    /\ game_id \in DOMAIN games
    /\ games' = [g \in DOMAIN games \ {game_id} |-> games[g]]
    /\ heap' = Collect(heap, games', calls)
    /\ UNCHANGED <<disk, calls, env, retryVars, promptVars, mergeVars, requestVars>>

select_scenario_for_game(game_id, scenario_name) ==
    /\ MaySync
    /\ IF game_id \in DOMAIN games
       THEN LET game == [Registered(game_id) EXCEPT !.scenario_name = scenario_name]
            IN  /\ heap' = [heap EXCEPT ![games[game_id]] = game]
                /\ disk' = save_game(disk, game)
       ELSE UNCHANGED <<heap, disk>>
    /\ UNCHANGED <<games, calls, env, retryVars, promptVars, mergeVars, requestVars>>

add_character_to_game(game_id, character) ==
    /\ MaySync
    /\ IF game_id \in DOMAIN games
       THEN /\ Len(Registered(game_id).characters) < MaxChars
            /\ LET game == [Registered(game_id) EXCEPT
                               !.characters = Append(@, character)]
               IN  /\ heap' = [heap EXCEPT ![games[game_id]] = game]
                   /\ disk' = save_game(disk, game)
       ELSE UNCHANGED <<heap, disk>>
    /\ UNCHANGED <<games, calls, env, retryVars, promptVars, mergeVars, requestVars>>

(***************************************************************************)
(* The async operations.  Each `await` is a suspension point: the code     *)
(* between two of them runs as one step.                                   *)
(***************************************************************************)
\* The backend as seen through retry_on_overload: some transient failures,
\* then an answer or a non-transient failure.
Transient(n) == [i \in 1..n |-> Raises(ServerError503)]
TransientRuns == {0, 2, MAX_RETRIES}
NarrativeScripts(values) ==
    {Transient(n) \o <<t>> :
        n \in TransientRuns,
        t \in {Returns(v) : v \in values} \cup {Raises(ClientError400)}}

ScenarioDetails == {"## The Setting"}

WebPathOfAnyResult(result, path) == path
WebPath(result, path) == IF result = "file" THEN path ELSE None

\* The loop of advance_scene that zips scenes with the recorded actions.
ConversationHistory(game_state) ==
    [i \in 1..Len(game_state.scenes) |->
        [scene_id |-> game_state.scenes[i].id,
         scene_text |-> game_state.scenes[i].text,
         prompt |-> game_state.scenes[i].prompt,
         player_action |-> IF i <= Len(game_state.player_actions)
                           THEN game_state.player_actions[i] ELSE None]]

Begin(c, op, game_id) ==
    [IdleCall EXCEPT !.op = op, !.game_id = game_id, !.pre_disk = Some(disk)]

Skipped(c, op, game_id) ==
    [Begin(c, op, game_id) EXCEPT !.pc = "done", !.outcome = "skipped"]

Suspended(c, op, game_id) ==
    [Begin(c, op, game_id) EXCEPT !.pc = "narrative", !.ref = games[game_id],
                                   !.pre = Some(Registered(game_id))]

generate_and_set_scenario_details(c, game_id) ==
    /\ MayStart(c)
    /\ IF game_id \notin DOMAIN games \/ Registered(game_id).scenario_name \in {None, ""}
       THEN calls' = [calls EXCEPT ![c] = Skipped(c, "details", game_id)]
       ELSE calls' = [calls EXCEPT ![c] = Suspended(c, "details", game_id)]
    /\ UNCHANGED <<games, heap, disk, env, retryVars, promptVars, mergeVars, requestVars>>

generate_opening_scene(c, game_id) ==
    /\ MayStart(c)
    /\ IF \/ game_id \notin DOMAIN games
          \/ Registered(game_id).scenario_name \in {None, ""}
          \/ Registered(game_id).characters = <<>>
       THEN calls' = [calls EXCEPT ![c] = Skipped(c, "opening", game_id)]
       ELSE /\ Len(Registered(game_id).scenes) < MaxScenes
            /\ calls' = [calls EXCEPT ![c] = Suspended(c, "opening", game_id)]
    /\ UNCHANGED <<games, heap, disk, env, retryVars, promptVars, mergeVars, requestVars>>

advance_scene(c, game_id, player_action) ==
    /\ MayStart(c)
    /\ IF game_id \notin DOMAIN games
       THEN /\ calls' = [calls EXCEPT ![c] = Skipped(c, "advance", game_id)]
            /\ UNCHANGED heap
       ELSE LET game_state == Registered(game_id)
                last_id == IF game_state.scenes = <<>> THEN 0
                           ELSE Last(game_state.scenes).id
                recorded == IF player_action # None
                            THEN [game_state EXCEPT !.player_actions =
                                      Append(@, player_action)]
                            ELSE game_state
            IN  /\ Len(game_state.scenes) < MaxScenes
                /\ Len(recorded.player_actions) <= MaxActions
                /\ heap' = [heap EXCEPT ![games[game_id]] = recorded]
                /\ calls' = [calls EXCEPT ![c] =
                      [Suspended(c, "advance", game_id) EXCEPT
                          !.player_action = player_action,
                          !.last_scene_id = last_id,
                          !.conversation_history = ConversationHistory(recorded)]]
    /\ UNCHANGED <<games, disk, env, retryVars, promptVars, mergeVars, requestVars>>

\* retry_on_overload raised: the exception leaves the generator function and
\* the operation of game.py that awaited it.
NarrativeRaises(c) ==
    /\ calls[c].pc = "narrative"
    /\ \E s \in NarrativeScripts({"answer"}) :
          LET r == retry_on_overload(RetryStart, s)
          IN  /\ r.state = "raised"
              /\ calls' = [calls EXCEPT ![c].pc = "done", ![c].outcome = "raised"]
    /\ UNCHANGED <<games, heap, disk, env, retryVars, promptVars, mergeVars, requestVars>>

\* generate_scenario_details returned: the notes are set and saved.
DetailsReturn(c) ==
    /\ calls[c].pc = "narrative"
    /\ calls[c].op = "details"
    /\ \E s \in NarrativeScripts(ScenarioDetails) :
          LET r == retry_on_overload(RetryStart, s)
              game == [heap[calls[c].ref] EXCEPT !.scenario_details = r.result[1]]
          IN  /\ r.state = "returned"
              /\ heap' = [heap EXCEPT ![calls[c].ref] = game]
              /\ disk' = save_game(disk, game)
              /\ calls' = [calls EXCEPT ![c].pc = "done", ![c].outcome = "returned"]
    /\ UNCHANGED <<games, env, retryVars, promptVars, mergeVars, requestVars>>

\* The narrative call of generate_opening_scene / generate_next_scene
\* returned: the updates are applied to the Character objects of the list
\* that was passed in, then the two asset tasks are awaited.
NarrativeReturns(c) ==
    /\ calls[c].pc = "narrative"
    /\ calls[c].op \in {"opening", "advance"}
    /\ \E s \in NarrativeScripts(env.responses) :
          LET r == retry_on_overload(RetryStart, s)
              generated == r.result[1]
              characters == heap[calls[c].ref].characters
          IN  /\ r.state = "returned"
              /\ heap' = [heap EXCEPT ![calls[c].ref].characters =
                            _apply_character_updates(characters,
                                                     generated.updated_characters)]
              /\ calls' = [calls EXCEPT ![c].pc = "assets",
                                        ![c].generated = Some(generated)]
    /\ UNCHANGED <<games, disk, env, retryVars, promptVars, mergeVars, requestVars>>

\* Both asset tasks ended: the Scene is made and returned, and game.py
\* appends it, stores the roster (the list it passed in) and saves.
SceneId(call) == IF call.op = "opening" THEN 1 ELSE call.last_scene_id + 1

AssetsDone(c) ==
    /\ calls[c].pc = "assets"
    /\ \E pair \in env.assets :
          LET image == pair[1]
              voiceover == pair[2]
              generated == calls[c].generated[1]
              scene == [_make_scene(SceneId(calls[c]), generated.scene_text,
                                    generated.prompt,
                                    WebPath(image, "/static/scenes/scene.png"),
                                    generated.game_status)
                        EXCEPT !.voiceover_path =
                            WebPath(voiceover, "/static/voiceovers/scene.wav")]
              updated_characters == heap[calls[c].ref].characters
              game == [heap[calls[c].ref] EXCEPT
                          !.scenes = Append(@, scene),
                          !.characters = updated_characters]
          IN  /\ heap' = [heap EXCEPT ![calls[c].ref] = game]
              /\ disk' = save_game(disk, game)
              /\ calls' = [calls EXCEPT ![c].pc = "done", ![c].outcome = "returned",
                                        ![c].assets = Some(pair),
                                        ![c].ret = Some(scene)]
    /\ UNCHANGED <<games, env, retryVars, promptVars, mergeVars, requestVars>>

\* The caller has taken the result; the locals of the call are gone.
Ack(c) ==
    /\ calls[c].pc = "done"
    /\ calls' = [calls EXCEPT ![c] = IdleCall]
    /\ heap' = Collect(heap, games, calls')
    /\ UNCHANGED <<games, disk, env, retryVars, promptVars, mergeVars, requestVars>>

GameNext ==
    \/ \E players \in 1..MaxPlayers : create_new_game(players)
    \/ \E c \in Callers, g \in env.load_ids : load_game(c, g)
    \/ \E g \in GameIds : clear_from_memory(g)
    \/ \E g \in GameIds, n \in ScenarioNames : select_scenario_for_game(g, n)
    \/ \E g \in GameIds :
          \E ch \in CharacterInputs(env.pool,
                                    IF g \in DOMAIN games
                                    THEN Registered(g).characters ELSE <<>>) :
              add_character_to_game(g, ch)
    \/ \E c \in Callers, g \in GameIds : generate_and_set_scenario_details(c, g)
    \/ \E c \in Callers, g \in GameIds : generate_opening_scene(c, g)
    \/ \E c \in Callers, g \in GameIds, a \in env.actions : advance_scene(c, g, a)
    \/ \E c \in Callers : NarrativeRaises(c)
    \/ \E c \in Callers : DetailsReturn(c)
    \/ \E c \in Callers : NarrativeReturns(c)
    \/ \E c \in Callers : AssetsDone(c)
    \/ \E c \in Callers : Ack(c)

(***************************************************************************)
(* core/generator.py : the requests generate_opening_scene and            *)
(* generate_next_scene send, by their parts.  The fixed text and the      *)
(* scenario and character sheets are left out.                            *)
(***************************************************************************)
\* A string that is neither None nor empty.
Truthy(text) == text \notin {None, ""}

\* scene_part of one history entry.  Every Scene is made from a
\* GeneratedScene, whose prompt is required, so entry["prompt"] is set.
HistoryPart(entry) ==
    [scene_id |-> entry.scene_id,
     scene_text |-> entry.scene_text,
     prompt_type_icon |-> IF entry.prompt.type = "dice_check" THEN "dice"
                          ELSE IF entry.prompt.type = "dialogue" THEN "speech"
                          ELSE "swords",
     target |-> IF Truthy(entry.prompt.target_character)
                THEN entry.prompt.target_character ELSE "Party",
     prompt_text |-> entry.prompt.prompt_text,
     responded |-> IF Truthy(entry.player_action)
                   THEN Some(entry.player_action) ELSE Nothing]

\* history_context
HistoryContext(conversation_history) ==
    [i \in 1..Len(conversation_history) |-> HistoryPart(conversation_history[i])]

\* action_context
ActionContext(player_action) ==
    IF Truthy(player_action) THEN Some(player_action) ELSE Nothing

\* dice_check_rules: the resolution rules, when the last entry's prompt is a
\* dice_check.
DiceCheckRulesForAnyEntry(conversation_history) ==
    IF \E i \in 1..Len(conversation_history) :
          conversation_history[i].prompt.type = "dice_check"
    THEN <<"dice_check_resolution_rules">>
    ELSE <<>>
DiceCheckRules(conversation_history) ==
    IF conversation_history # <<>>
       /\ Last(conversation_history).prompt.type = "dice_check"
    THEN <<"dice_check_resolution_rules">>
    ELSE <<>>

\* The prompt of generate_next_scene.
NextSceneRequest(player_action, conversation_history) ==
    [for |-> "next",
     history_context |-> HistoryContext(conversation_history),
     action_context |-> ActionContext(player_action),
     rules |-> DiceCheckRules(conversation_history)
               \o <<"impossible_action_rules", "scene_generation_prompt_rules">>]

\* The prompt of generate_opening_scene.
OpeningSceneRequest ==
    [for |-> "opening",
     history_context |-> <<>>,
     action_context |-> Nothing,
     rules |-> <<"scene_generation_prompt_rules">>]

\* Game states a request is built from: up to MaxStory scenes with any of
\* the prompts, and some recorded actions.
MaxStory == 3
StoryPrompts == {PartyDialogue, KaelenDiceCheck, PartyAction}
StoryScenes ==
    UNION {{[i \in 1..n |->
                _make_scene(i, "scene", prompts[i], None, "ongoing")] :
            prompts \in [1..n -> StoryPrompts]} : n \in 0..MaxStory}
StoryActions ==
    {[i \in 1..n |-> "I draw my sword"] : n \in 0..MaxStory}
StoryInputs ==
    {[game_state |-> [Game("g1", 1) EXCEPT !.scenes = scenes,
                                           !.player_actions = actions],
      player_action |-> a] :
        scenes \in StoryScenes, actions \in StoryActions, a \in PlayerActions}

NoRequest ==
    [for |-> "none", history_context |-> <<>>, action_context |-> Nothing,
     rules |-> <<>>]

RequestInit ==
    /\ story \in StoryInputs
    /\ request = NoRequest

RequestIdle ==
    /\ story = [game_state |-> Game("g1", 1), player_action |-> None]
    /\ request = NoRequest

\* generate_opening_scene builds its prompt.
RequestOpeningScene ==
    /\ request = NoRequest
    /\ request' = OpeningSceneRequest
    /\ UNCHANGED <<story, gameVars, retryVars, promptVars, mergeVars>>

\* advance_scene records the action and builds the history (as in the action
\* advance_scene above), and generate_next_scene builds its prompt from them.
RequestNextScene ==
    /\ request = NoRequest
    /\ LET game_state == story.game_state
           recorded == IF story.player_action # None
                       THEN [game_state EXCEPT !.player_actions =
                                 Append(@, story.player_action)]
                       ELSE game_state
       IN  request' = NextSceneRequest(story.player_action,
                                       ConversationHistory(recorded))
    /\ UNCHANGED <<story, gameVars, retryVars, promptVars, mergeVars>>

RequestNext == RequestOpeningScene \/ RequestNextScene

(***************************************************************************)
(* Specifications                                                          *)
(***************************************************************************)
Init == GameIdle /\ RetryIdle /\ PromptIdle /\ MergeIdle /\ RequestIdle
Next == GameNext
Spec == Init /\ [][Next]_vars

AssetsRun ==
    GameInit /\ env = AnyAssetResult /\ RetryIdle /\ PromptIdle /\ MergeIdle
    /\ RequestIdle
SpecAssets == AssetsRun /\ [][Next]_vars

RetryNext == Attempt
RetryRun == GameIdle /\ RetryInit /\ PromptIdle /\ MergeIdle /\ RequestIdle
SpecRetry == RetryRun /\ [][RetryNext]_vars

PromptNext == Construct

MergeNext == Merge
MergeRun == GameIdle /\ RetryIdle /\ PromptIdle /\ MergeInit /\ RequestIdle
SpecMerge == MergeRun /\ [][MergeNext]_vars
PromptRun == GameIdle /\ RetryIdle /\ PromptInit /\ MergeIdle /\ RequestIdle
SpecPrompt == PromptRun /\ [][PromptNext]_vars

\* A game in play: created with a scenario and Kaelen, its opening scene
\* generated from the answer Ambush, in the registry and saved.
StartedGame ==
    LET characters == _apply_character_updates(<<Object(Kaelen, 1)>>,
                                               Ambush.updated_characters)
        scene == [_make_scene(1, Ambush.scene_text, Ambush.prompt,
                              "/static/scenes/scene.png", Ambush.game_status)
                  EXCEPT !.voiceover_path = "/static/voiceovers/scene.wav"]
    IN  [Game("g1", 1) EXCEPT !.scenario_name = "Siege of Emberhold",
                              !.characters = characters,
                              !.scenes = <<scene>>]

\* Two callers work on the game in play: each submits actions and reloads
\* the game, and their calls interleave at the suspension points.
OverlapRun ==
    /\ games = ("g1" :> 1)
    /\ heap = (1 :> StartedGame)
    /\ disk = save_game(EmptyMap, StartedGame)
    /\ calls = [c \in Callers |-> IdleCall]
    /\ env = Overlapping
    /\ RetryIdle /\ PromptIdle /\ MergeIdle /\ RequestIdle
OverlapNext ==
    \/ \E c \in Callers, g \in env.load_ids : load_game(c, g)
    \/ \E c \in Callers, g \in GameIds, a \in env.actions : advance_scene(c, g, a)
    \/ \E c \in Callers : NarrativeRaises(c)
    \/ \E c \in Callers : NarrativeReturns(c)
    \/ \E c \in Callers : AssetsDone(c)
    \/ \E c \in Callers : Ack(c)
SpecOverlap == OverlapRun /\ [][OverlapNext]_vars

RequestRun == GameIdle /\ RetryIdle /\ PromptIdle /\ MergeIdle /\ RequestInit
SpecRequest == RequestRun /\ [][RequestNext]_vars

(***************************************************************************)
(* Properties of the game operations (specification Spec)                  *)
(***************************************************************************)
Transition(c) == calls[c].op \in {"opening", "advance"}
Finished(c, op, outcome) ==
    /\ calls[c].pc = "done"
    /\ calls[c].op = op
    /\ calls[c].outcome = outcome
Terminal(game) ==
    /\ game.scenes # <<>>
    /\ Last(game.scenes).game_status \in {"completed", "failed"}

\* C1: when the narrative call of generate_opening_scene or advance_scene
\* raises, the Game of the registry is the Game it was when the call began
\* (scenes, characters, player_actions, scenario fields, assets) and the
\* saved record was not written.
C1_FailedTransitionLeavesGameUntouched ==
    \A c \in Callers :
        (Transition(c) /\ calls[c].pc = "done" /\ calls[c].outcome = "raised"
                       /\ (calls[c].op = "advance" => calls[c].pre[1].scenes # <<>>))
            => /\ Registered(calls[c].game_id) = calls[c].pre[1]
               /\ disk = calls[c].pre_disk[1]

\* C2: after a successful advance_scene on a game that had a scene, there is
\* exactly one recorded action fewer than there are scenes.
C2_OneActionFewerThanScenes ==
    \A c \in Callers :
        (Finished(c, "advance", "returned") /\ calls[c].pre[1].scenes # <<>>)
            => Len(Registered(calls[c].game_id).player_actions)
                   = Len(Registered(calls[c].game_id).scenes) - 1

\* C3: with one operation at a time, the scenes of a game carry the ids
\* 1, 2, ..., len(scenes) in list order.
C3_SceneIdsCountFromOne ==
    \A g \in DOMAIN games :
        \A i \in 1..Len(Registered(g).scenes) : Registered(g).scenes[i].id = i

\* C4: once the last scene of a game is 'completed' or 'failed', no step
\* changes the scenes of that game.
C4_TerminalGameGetsNoScene ==
    [][\A g \in DOMAIN games :
          (g \in DOMAIN games' /\ Terminal(Registered(g)))
              => heap'[games'[g]].scenes = Registered(g).scenes]_vars

\* C5: every character of every Game, in memory and in the saved record, has
\* 0 <= current_health <= maximum_health, whatever health the backend
\* proposed.
HealthInRange(c) == 0 <= c.current_health /\ c.current_health <= c.maximum_health

C5_HealthWithinBounds ==
    /\ \A r \in DOMAIN heap :
          \A i \in 1..Len(heap[r].characters) : HealthInRange(heap[r].characters[i])
    /\ \A g \in DOMAIN disk :
          \A i \in 1..Len(disk[g].characters) : HealthInRange(disk[g].characters[i])

\* C5 witness: a merge has just clamped a proposal above the maximum (for a
\* character that stood at 0) and, in the same list, a proposal of 0.
C5_Witness ==
    \E c \in Callers :
        /\ calls[c].pc = "assets"
        /\ calls[c].generated = Some(Defeat)
        /\ \E i, j \in 1..Len(heap[calls[c].ref].characters) :
              LET now == heap[calls[c].ref].characters
                  before == calls[c].pre[1].characters
              IN  /\ now[i].name = "Kaelen"
                  /\ before[i].current_health = 0
                  /\ now[i].current_health = now[i].maximum_health
                  /\ now[j].name = "Sera"
                  /\ now[j].current_health = 0

\* C8: a transition is never half committed: while it runs and when it has
\* returned, the Game either shows neither the scene nor the merge of the
\* transition, or it shows both.
C8_NoPartialCommit ==
    \A c \in Callers :
        (Transition(c) /\ calls[c].pc \in {"narrative", "assets", "done"}
                       /\ calls[c].outcome # "skipped")
            => LET game == heap[calls[c].ref]
                   before == calls[c].pre[1]
               IN  \/ /\ game.scenes = before.scenes
                      /\ game.characters = before.characters
                   \/ /\ calls[c].ret # Nothing
                      /\ game.scenes = Append(before.scenes, calls[c].ret[1])
                      /\ game.characters =
                            _apply_character_updates(
                                before.characters,
                                calls[c].generated[1].updated_characters)

(***************************************************************************)
(* Properties of retry_on_overload (specification SpecRetry)               *)
(***************************************************************************)
\* The outcome the backend gave to attempt k.
Answer(k) == IF k <= Len(script) THEN script[k] ELSE Returns("late result")

\* The errors the claims call transient: service unavailable, too many requests.
Overloaded(o) == ~o.ok /\ o.exc \in {ServerError503, ClientError429}

\* The errors the claims call non-transient: a provider error with a status
\* that is not retried, a provider error without a status, any other exception.
NonTransient(o) ==
    ~o.ok /\ o.exc \in {ClientError400, ClientErrorNoStatus, OtherException}

\* The backend fails transiently exactly n times and then succeeds.
FailsThenSucceeds(n) ==
    /\ \A k \in 1..n : Overloaded(Answer(k))
    /\ Answer(n + 1).ok

\* C6: against a backend that fails transiently exactly N times and then
\* succeeds, the call returns that success after N+1 attempts when N < 5;
\* after 5 transient failures in a row it raises, having made 5 attempts,
\* and a sixth attempt is never made.
C6_RetryUntilSuccessOrFiveFailures ==
    /\ rt.attempts <= 5
    /\ rt.state # "running" =>
          /\ \A n \in 0..4 :
                FailsThenSucceeds(n) =>
                    /\ rt.state = "returned"
                    /\ rt.attempts = n + 1
                    /\ rt.result = Answer(n + 1).value
          /\ (\A k \in 1..5 : Overloaded(Answer(k))) =>
                    /\ rt.state = "raised"
                    /\ rt.attempts = 5
                    /\ rt.raised = Answer(5).exc

\* C6 witness: four transient failures, then the fifth attempt succeeded.
C6_Witness ==
    /\ FailsThenSucceeds(4)
    /\ rt.state = "returned"
    /\ rt.attempts = 5

\* C7: a non-transient failure of the first attempt ends the call after that
\* one attempt, without a sleep, with the same error raised; and whenever the
\* call returns a value, it is the value of the attempt made last.
C7_NonTransientRaisedAtOnce ==
    /\ NonTransient(Answer(1)) =>
          /\ rt.attempts <= 1
          /\ rt.sleeps = <<>>
          /\ rt.attempts = 1 => (rt.state = "raised" /\ rt.raised = Answer(1).exc)
    /\ rt.state = "returned" =>
          (Answer(rt.attempts).ok /\ rt.result = Answer(rt.attempts).value)
    /\ (rt.state # "running" /\ ~Answer(rt.attempts).ok) =>
          (rt.state = "raised" /\ rt.raised = Answer(rt.attempts).exc)

\* C7 witness: the first attempt failed with a provider error without status.
C7_Witness ==
    /\ Answer(1) = Raises(ClientErrorNoStatus)
    /\ rt.state = "raised"
    /\ rt.attempts = 1
    /\ rt.raised = ClientErrorNoStatus

(***************************************************************************)
(* Properties of PromptType (specification SpecPrompt)                     *)
(***************************************************************************)
Constructed == pout # NotConstructed

\* C9 as claimed: a dice_check prompt is accepted exactly when dice_type is
\* non-null and exactly one of target_character, target_characters is
\* non-null.
C9_ExactlyOneNonNullTarget ==
    (Constructed /\ pin.type = "dice_check") =>
        (pout.ok <=>
            /\ pin.dice_type # None
            /\ (pin.target_character # None) # (pin.target_characters # Nothing))

\* C9 as amended: a dice_check prompt is accepted exactly when dice_type is
\* non-null and exactly one of these holds: target_character is non-null;
\* target_characters is a non-empty list.  An empty list counts as no target.
MultiTargetGiven(kwargs) ==
    kwargs.target_characters \notin {Nothing, Some(<<>>)}

C9_ExactlyOneTargetGiven ==
    (Constructed /\ pin.type = "dice_check") =>
        (pout.ok <=>
            /\ pin.dice_type # None
            /\ (pin.target_character # None) # MultiTargetGiven(pin))

\* C9 witness: a dice_check with a single target and an empty list of
\* targets was constructed.
C9_Witness ==
    /\ Constructed
    /\ pout.ok
    /\ pin.type = "dice_check"
    /\ pin.target_character = "Kaelen"
    /\ pin.target_characters = Some(<<>>)

\* C10: a dialogue or action prompt is constructed whatever its dice and
\* target fields are, and the prompt keeps the targets it was given, so two
\* null targets stay null.
C10_DialogueAndActionAccepted ==
    (Constructed /\ pin.type \in {"dialogue", "action"}) =>
        /\ pout.ok
        /\ pout.value[1].target_character = pin.target_character
        /\ pout.value[1].target_characters = pin.target_characters

\* C10 witness: a dialogue prompt for the entire party was constructed.
C10_Witness ==
    /\ Constructed
    /\ pout.ok
    /\ pin.type = "dialogue"
    /\ pin.dice_type = None
    /\ pout.value[1].target_character = None
    /\ pout.value[1].target_characters = Nothing

(***************************************************************************)
(* Preconditions, results and saved records of the game operations         *)
(* (specification Spec)                                                    *)
(***************************************************************************)
\* The call got past the guard of its operation: the backend is or was asked.
AskedBackend(c) == calls[c].pc # "idle" /\ calls[c].outcome # "skipped"

OpeningPreconditions(game) ==
    /\ game.scenario_name \notin {None, ""}
    /\ game.scenario_details # None
    /\ Len(game.characters) = game.players

\* C11: generate_opening_scene asks the backend (and so can append scene 1)
\* only for a game whose scenario name is set, whose scenario details were
\* generated and whose roster has as many characters as the game has players;
\* otherwise it returns without a backend call.
C11_OpeningOnlyWhenPrepared ==
    \A c \in Callers :
        (calls[c].op = "opening" /\ AskedBackend(c))
            => OpeningPreconditions(calls[c].pre[1])

\* C12: advance_scene asks the backend, records an action and appends a scene
\* only for a game that already has a scene.
C12_AdvanceOnlyAfterOpening ==
    \A c \in Callers :
        (calls[c].op = "advance" /\ AskedBackend(c))
            => calls[c].pre[1].scenes # <<>>

\* No operation is between its first and its last statement.
NothingInFlight == \A c \in Callers : calls[c].pc \in {"idle", "done"}

\* C17: whenever no operation is in flight, the saved record of every game of
\* the registry is the dump of the Game in memory, field for field.
C17_SavedRecordEqualsGame ==
    NothingInFlight
        => \A g \in DOMAIN games :
              /\ g \in DOMAIN disk
              /\ disk[g] = model_dump(Registered(g))

\* C19: advance_scene ends by returning (the new Scene, or None); a failure
\* of scene generation does not leave it as a raised exception.
C19_AdvanceReturnsNoneOnError ==
    \A c \in Callers :
        (calls[c].op = "advance" /\ calls[c].pc = "done")
            => /\ calls[c].outcome # "raised"
               /\ calls[c].outcome = "returned" => calls[c].ret # Nothing

\* C20: when a transition has succeeded and a character of the roster stands
\* at 0 health after the merge, the scene it appended is 'failed'.
C20_ZeroHealthMeansFailed ==
    \A c \in Callers :
        (Transition(c) /\ calls[c].pc = "done" /\ calls[c].outcome = "returned")
            => LET game == Registered(calls[c].game_id)
               IN  (\E i \in 1..Len(game.characters) :
                        game.characters[i].current_health = 0)
                       => Last(game.scenes).game_status = "failed"

(***************************************************************************)
(* Failing asset tasks (specification SpecAssets)                          *)
(***************************************************************************)
\* The asset tasks of the call have ended.
AssetsEnded(c) == Transition(c) /\ calls[c].assets # Nothing

\* C13: whatever way the image task and the voiceover task end after the
\* narrative call answered (file, None or an exception, each on its own), the
\* transition returns its Scene: the scene is the last of the game and is
\* saved, image_path is None exactly when the image task gave no file,
\* voiceover_path is None exactly when the voiceover task gave no file, and
\* the roster is the merge of the roster the call started with.
C13_AssetFailureIsNotFatal ==
    \A c \in Callers :
        /\ (Transition(c) /\ calls[c].generated # Nothing)
              => calls[c].outcome # "raised"
        /\ AssetsEnded(c)
              => LET game == heap[calls[c].ref]
                     scene == calls[c].ret[1]
                     pair == calls[c].assets[1]
                 IN  /\ calls[c].outcome = "returned"
                     /\ Last(game.scenes) = scene
                     /\ (scene.image_path = None) <=> (pair[1] # "file")
                     /\ (scene.voiceover_path = None) <=> (pair[2] # "file")
                     /\ game.characters =
                           _apply_character_updates(
                               calls[c].pre[1].characters,
                               calls[c].generated[1].updated_characters)
                     /\ disk[calls[c].game_id] = model_dump(game)

\* C13 witness: the image task raised and the voiceover task gave its file;
\* the scene was appended without image and with voiceover, and the merge
\* changed Kaelen.
C13_Witness ==
    \E c \in Callers :
        /\ AssetsEnded(c)
        /\ calls[c].assets = Some(<<"exception", "file">>)
        /\ calls[c].generated = Some(Ambush)
        /\ calls[c].ret[1].image_path = None
        /\ calls[c].ret[1].voiceover_path # None
        /\ Len(heap[calls[c].ref].scenes) = 2
        /\ heap[calls[c].ref].characters # calls[c].pre[1].characters

(***************************************************************************)
(* Save and load (specification Spec)                                      *)
(***************************************************************************)
\* The step is load_game(g) run by caller c.
LoadStep(c, g) ==
    /\ calls[c].pc = "idle"
    /\ calls'[c].pc = "done"
    /\ calls'[c].op = "load"
    /\ calls'[c].game_id = g

\* The saved record keeps player count, scenario name and characters.
SavedAs(game, record) ==
    /\ record.players = game.players
    /\ record.scenario_name = game.scenario_name
    /\ record.characters = model_dump(game).characters

\* C18: the saved record of a registered game holds its player count,
\* scenario name and characters whenever no operation is in flight; load_game
\* of a saved game that has no scene yet returns a Game with the player count,
\* scenario name and characters of the record and registers that Game under
\* the id; load_game of an id without a record returns None and leaves the
\* registry as it was.
C18_SaveLoadRoundTrip ==
    /\ [](NothingInFlight
            => \A g \in DOMAIN games :
                  g \in DOMAIN disk /\ SavedAs(Registered(g), disk[g]))
    /\ [][\A c \in Callers, g \in LoadIds :
            LoadStep(c, g)
                => IF g \notin DOMAIN disk
                   THEN /\ calls'[c].outcome = "returned None"
                        /\ calls'[c].ret = Nothing
                        /\ games' = games
                        /\ heap' = heap
                   ELSE disk[g].scenes = <<>>
                           => /\ calls'[c].outcome = "returned"
                              /\ SavedAs(calls'[c].ret[1], disk[g])
                              /\ g \in DOMAIN games'
                              /\ heap'[games'[g]] = calls'[c].ret[1]]_vars

\* C18 witness: a game with a scenario and two characters was not in the
\* registry when load_game began, and is registered again with them.
C18_Witness ==
    \E c \in Callers :
        /\ calls[c].op = "load"
        /\ calls[c].pc = "done"
        /\ calls[c].pre = Nothing
        /\ calls[c].outcome = "returned"
        /\ calls[c].game_id \in DOMAIN games
        /\ Registered(calls[c].game_id).scenario_name \in ScenarioNames
        /\ Len(Registered(calls[c].game_id).characters) = 2
        /\ Registered(calls[c].game_id).scenes = <<>>

(***************************************************************************)
(* Properties of _apply_character_updates (specification SpecMerge)        *)
(***************************************************************************)
Names(characters) == [i \in 1..Len(characters) |-> characters[i].name]

InRoster(name) == \E i \in 1..Len(roster) : roster[i].name = name

\* Every entry of the proposal names a character of the roster and repeats
\* the sheet of every roster character of that name.
ProposalRepeatsRoster ==
    \A k \in 1..Len(proposal) :
        /\ InRoster(proposal[k].name)
        /\ \A i \in 1..Len(roster) :
              roster[i].name = proposal[k].name => Sheet(roster[i]) = proposal[k]

\* C14: a proposal that repeats the roster is merged without a log entry and
\* gives back the roster as it was; merging it again changes nothing.
C14_MatchingMergeChangesNothing ==
    (merged.done /\ ProposalRepeatsRoster)
        => /\ merged.log = <<>>
           /\ merged.characters = roster
           /\ _apply_character_updates(merged.characters, proposal)
                 = merged.characters

\* C14 witness: a two-entry proposal repeating both characters of a roster,
\* one of them wounded, has been merged.
C14_Witness ==
    /\ merged.done
    /\ ProposalRepeatsRoster
    /\ Len(proposal) = 2
    /\ Names(roster) = <<"Kaelen", "Sera">>
    /\ Names(proposal) = <<"Sera", "Kaelen">>
    /\ roster[1].current_health = 40

\* The proposal without the entries that name no character of the roster.
KnownUpdates ==
    LET Known(u) == InRoster(u.name)
    IN  SelectSeq(proposal, Known)

\* C15: an update that names no character of the roster is skipped with a
\* warning: the merge ends, the names of the roster and their order stay, and
\* the result is the merge of the proposal without the unknown entries.
C15_UnknownNameIsSkipped ==
    merged.done
        => /\ Names(merged.characters) = Names(roster)
           /\ merged.characters = _apply_character_updates(roster, KnownUpdates)
           /\ \A k \in 1..Len(proposal) :
                 ~InRoster(proposal[k].name)
                     => \E e \in 1..Len(merged.log) :
                           /\ merged.log[e].level = "warning"
                           /\ merged.log[e].name = proposal[k].name

\* C15 witness: an update for the unknown Zed came before an update that
\* wounds Kaelen; the merge went on to apply the second.
C15_Witness ==
    /\ merged.done
    /\ Names(roster) = <<"Kaelen", "Sera">>
    /\ proposal = <<Zed, Proposed(Kaelen, 40)>>
    /\ roster[1].current_health = 100
    /\ merged.characters[1].current_health = 40

\* C16: a character no update names is in the merged roster, at its place,
\* with every field as it was.
C16_UnnamedCharactersCarriedOver ==
    merged.done
        => /\ Len(merged.characters) = Len(roster)
           /\ \A i \in 1..Len(roster) :
                 (\A k \in 1..Len(proposal) : proposal[k].name # roster[i].name)
                     => merged.characters[i] = roster[i]

\* C16 witness: the proposal names Kaelen only and changes Kaelen; Sera is in
\* the merged roster as before.
C16_Witness ==
    /\ merged.done
    /\ Names(roster) = <<"Kaelen", "Sera">>
    /\ proposal = <<Veteran>>
    /\ merged.characters[1] # roster[1]
    /\ merged.characters[2] = roster[2]

(***************************************************************************)
(* Assets, stats and names of a game (specification Spec)                  *)
(***************************************************************************)
\* The Assets of the game that carry the name.
AssetsNamed(game, name) == {a \in game.assets : a.name = name}

\* C21: after a successful transition, every name the backend listed in
\* assets_present has exactly one Asset in game.assets.
C21_PresentAssetsAreRegistered ==
    \A c \in Callers :
        (Transition(c) /\ calls[c].pc = "done" /\ calls[c].outcome = "returned")
            => LET game == Registered(calls[c].game_id)
                   present == calls[c].generated[1].assets_present
               IN  \A k \in 1..Len(present) :
                      Cardinality(AssetsNamed(game, present[k])) = 1

StatsInRange(c) ==
    /\ c.strength \in 0..20
    /\ c.intelligence \in 0..20
    /\ c.agility \in 0..20

\* C22: every character of every Game, in memory and in the saved record, has
\* strength, intelligence and agility in 0..20, whatever the backend proposed.
C22_StatsWithinBounds ==
    /\ \A r \in DOMAIN heap :
          \A i \in 1..Len(heap[r].characters) : StatsInRange(heap[r].characters[i])
    /\ \A g \in DOMAIN disk :
          \A i \in 1..Len(disk[g].characters) : StatsInRange(disk[g].characters[i])

\* C23: no two entries of the roster of a registered game carry the same name.
C23_RosterNamesUnique ==
    \A g \in DOMAIN games :
        \A i, j \in 1..Len(Registered(g).characters) :
            Registered(g).characters[i].name = Registered(g).characters[j].name
                => i = j

(***************************************************************************)
(* Which errors are retried, and the delays (specification SpecRetry)      *)
(***************************************************************************)
\* The status code of a provider error, Absent for any other outcome.
StatusOf(o) ==
    IF o.ok \/ o.exc.cls \notin {"ServerError", "ClientError"}
    THEN Absent
    ELSE IF o.exc.status_code # Absent THEN o.exc.status_code ELSE o.exc.code

\* Attempt k was made, was not the last the cap allows, and its outcome is known.
Judged(k) == k <= rt.attempts /\ k < MAX_RETRIES

\* The executor slept and went on to attempt k + 1.
RetriedAfter(k) == Len(rt.sleeps) >= k

C28_DelaysDouble ==
    /\ rt.sleeps = SubSeq(<<3, 6, 12, 24>>, 1, Len(rt.sleeps))
    /\ \A k \in 1..Len(rt.sleeps) :
          rt.sleeps[k] = RETRY_DELAY * RETRY_BACKOFF ^ (k - 1)
    /\ rt.state = "running" => Len(rt.sleeps) = rt.attempts
    /\ rt.state # "running" => Len(rt.sleeps) = rt.attempts - 1

\* C28 witness: five overloaded attempts, four sleeps of 3, 6, 12 and 24
\* seconds, and the call has raised.
C28_Witness ==
    /\ rt.state = "raised"
    /\ rt.attempts = MAX_RETRIES
    /\ rt.sleeps = <<3, 6, 12, 24>>

\* ---------------------------------------------------------------------
\* Fields a merge leaves alone (specification SpecMerge)
\* ---------------------------------------------------------------------

\* C29: a merge never changes a character's name, maximum_health or
\* image_path: the merged list has, entry by entry, the objects of the
\* roster with these three fields as they were.
C29_MergeKeepsIdentityFields ==
    merged.done
        => /\ Len(merged.characters) = Len(roster)
           /\ \A i \in 1..Len(roster) :
                 /\ merged.characters[i].name = roster[i].name
                 /\ merged.characters[i].maximum_health = roster[i].maximum_health
                 /\ merged.characters[i].image_path = roster[i].image_path
                 /\ merged.characters[i].ref = roster[i].ref

\* C29 witness: Kaelen at 40 of 100 is proposed health 150 and then a new
\* strength; the merge changed the health and the strength, and the maximum
\* and the image path are the ones of the roster.
C29_Witness ==
    /\ merged.done
    /\ Names(roster) = <<"Kaelen">>
    /\ proposal = <<Proposed(Kaelen, 150), Veteran>>
    /\ roster[1].current_health = 40
    /\ merged.characters[1].current_health = 100
    /\ merged.characters[1].strength = 16
    /\ merged.characters[1].maximum_health = 100
    /\ merged.characters[1].image_path = Kaelen.image_path

\* ---------------------------------------------------------------------
\* Dice-check resolution rules in a request (specification SpecRequest)
\* ---------------------------------------------------------------------
HasDiceCheckRules(r) ==
    \E i \in 1..Len(r.rules) : r.rules[i] = "dice_check_resolution_rules"

\* C26: the request for the next scene contains the dice-check resolution
\* rules exactly when the prompt of the last existing scene is a dice_check,
\* whatever the prompts of the scenes before it; the opening-scene request
\* never contains them.
C26_DiceRulesFollowLastPrompt ==
    /\ request.for = "next" =>
          (HasDiceCheckRules(request)
              <=> /\ story.game_state.scenes # <<>>
                  /\ Last(story.game_state.scenes).prompt.type = "dice_check")
    /\ request.for = "opening" => ~HasDiceCheckRules(request)

\* C26 witness: three scenes whose prompts are a dice_check, a dice_check and
\* a dialogue; the request for the fourth scene shows all three and has no
\* resolution rules.
C26_Witness ==
    /\ request.for = "next"
    /\ Len(story.game_state.scenes) = 3
    /\ story.game_state.scenes[1].prompt.type = "dice_check"
    /\ story.game_state.scenes[2].prompt.type = "dice_check"
    /\ story.game_state.scenes[3].prompt.type = "dialogue"
    /\ Len(request.history_context) = 3
    /\ ~HasDiceCheckRules(request)

\* ---------------------------------------------------------------------
\* The history advance_scene hands to the backend (specification Spec)
\* ---------------------------------------------------------------------

\* An advance_scene call that is suspended on generate_next_scene.
AwaitsNextScene(c) == calls[c].op = "advance" /\ calls[c].pc = "narrative"

\* C25: the history passed to the backend has one entry per existing scene,
\* in scene order, with the scene's id, text and prompt; the response of
\* entry i is the i-th recorded action when there is one and null otherwise;
\* and the entry of the last scene carries the action just submitted.
C25_HistoryZipsScenesWithActions ==
    \A c \in Callers :
        AwaitsNextScene(c) =>
            LET game_state == heap[calls[c].ref]
                history == calls[c].conversation_history
            IN  /\ Len(history) = Len(game_state.scenes)
                /\ \A i \in 1..Len(history) :
                      /\ history[i].scene_id = game_state.scenes[i].id
                      /\ history[i].scene_text = game_state.scenes[i].text
                      /\ history[i].prompt = game_state.scenes[i].prompt
                      /\ history[i].player_action =
                            IF i <= Len(game_state.player_actions)
                            THEN game_state.player_actions[i] ELSE None
                /\ history # <<>> =>
                      Last(history).player_action = calls[c].player_action

\* ---------------------------------------------------------------------
\* Overlapping calls on one game (specification SpecOverlap)
\* ---------------------------------------------------------------------
SceneIdsIncrease(game) ==
    \A i \in 1..(Len(game.scenes) - 1) : game.scenes[i].id < game.scenes[i + 1].id

\* The history the call sent is the list of the scenes that stand before the
\* scene it produced.
EmbedsPrecedingScenes(c) ==
    LET game == heap[calls[c].ref]
        history == calls[c].conversation_history
    IN  \E k \in 1..Len(game.scenes) :
            /\ game.scenes[k] = calls[c].ret[1]
            /\ Len(history) = k - 1
            /\ \A i \in 1..(k - 1) :
                  /\ history[i].scene_id = game.scenes[i].id
                  /\ history[i].scene_text = game.scenes[i].text

\* C24: also when two transitions on a game overlap, the scene ids of the game
\* increase strictly along game.scenes, in memory and in the saved record (no
\* two scenes share an id), and the request of every finished advance_scene
\* embedded every scene that precedes the scene it produced.
C24_SceneIdsUniqueWhenOverlapping ==
    /\ \A r \in DOMAIN heap : SceneIdsIncrease(heap[r])
    /\ \A g \in DOMAIN disk : SceneIdsIncrease(disk[g])
    /\ \A c \in Callers :
          Finished(c, "advance", "returned") => EmbedsPrecedingScenes(c)

\* C30: at the step at which advance_scene returns a scene S, S is the last
\* scene of the Game the registry holds under the id and of the saved record,
\* whatever ran while the call was suspended.
C30_ReturnedSceneIsCurrent ==
    [][\A c \in Callers :
          (calls[c].op = "advance" /\ calls[c].pc = "assets" /\ calls'[c].pc = "done")
              => LET g == calls[c].game_id
                     S == calls'[c].ret[1]
                 IN  /\ g \in DOMAIN games'
                     /\ heap'[games'[g]].scenes # <<>>
                     /\ Last(heap'[games'[g]].scenes) = S
                     /\ g \in DOMAIN disk'
                     /\ Last(disk'[g].scenes) = S]_vars

====
